---- MODULE Spec2Model ----
(***************************************************************************)
(* Model of the retrieval engine of rag-chatbot-api:                       *)
(*   app/services/rag.py  (RAGService: the FAISS index, the two parallel   *)
(*                         lists, the two index files, add / delete /      *)
(*                         query)                                          *)
(*   app/database.py      (the documents table)                            *)
(*                                                                         *)
(* A text is the sequence of its words (what str.split() returns); a       *)
(* chunk is the sequence of the words that ' '.join() glues together.      *)
(* An embedding vector is abstracted to one integer coordinate; the index  *)
(* keeps the dimension it was built with and the stored coordinates.       *)
(***************************************************************************)
EXTENDS Integers, Sequences, FiniteSets, TLC

VARIABLES
    status,        \* "serving" | "down" | "failed": the process holding rag_service
    index,         \* RAGService.index: [d, xb]  (faiss.IndexFlatL2)
    documents,     \* RAGService.documents: the chunk texts, by row
    metadatas,     \* RAGService.metadatas: the metadata dicts, by row
    disk_index,    \* the file ./faiss_index.bin
    disk_meta,     \* the file ./faiss_meta.pkl
    db_documents,  \* the rows of the table documents (rag_app.db)
    next_uuid,     \* the source of uuid.uuid4(): the next unused document id
    faults,        \* how many calls the environment has made fail so far
    last,          \* the last call made to the service and how it ended
    conversations, \* the rows of the table conversations
    messages,      \* the rows of the table messages, in rowid order
    clock,         \* CURRENT_TIMESTAMP of the database
    inflight,      \* the chat requests received and not yet handled
    turns,         \* how many chat requests were received so far
    chunked        \* a call of chunk_text: its arguments and what it gave

\* the relational store of the conversations, and the requests on it
chatvars == <<conversations, messages, clock, inflight, turns>>

vars == <<status, index, documents, metadatas, disk_index, disk_meta,
          db_documents, next_uuid, faults, last, chatvars, chunked>>

----------------------------------------------------------------------------
(* Bounds of the model and constants of the program *)

\* how many add_document calls (document ids) a run makes
MaxDocs == 2

\* how many calls of a run the environment makes fail (an upstream error, a
\* storage error, the death of the process inside _save_index)
MaxFaults == 1

\* the number of words of the long input text (more than one window)
LongLen == 451

\* RAGService.dimension
Dimension == 1024

\* chunk_text's default chunk_size and overlap
DefaultChunkSize == 500
DefaultOverlap == 50

\* query's default top_k
DefaultTopK == 3

Users == {"alice", "bob"}

FileNames == {"a.pdf"}

LongText == [i \in 1..LongLen |-> 1 + (i % 2)]

\* the texts given to add_document: empty, one window, more than one window
Texts == {<< >>, <<1, 2>>, LongText}

\* the questions given to query
Questions == {<<1>>}

Min(a, b) == IF a < b THEN a ELSE b

----------------------------------------------------------------------------
(* chunk_text *)

\* range(0, n, step) for step > 0, as the sequence of its values
RangeStarts(n, step) == [k \in 1..((n + step - 1) \div step) |-> (k - 1) * step]

\* words[i : i + chunk_size] of Python (i is 0-based, the slice is clipped)
Slice(words, i, chunk_size) == SubSeq(words, i + 1, Min(Len(words), i + chunk_size))

\* the windows chunk_text collects; a window of no word is dropped
\* (chunk.strip() is empty exactly when the slice holds no word).
Windows(words, chunk_size, step) ==
    LET starts == RangeStarts(Len(words), step)
        all == [k \in 1..Len(starts) |-> Slice(words, starts[k], chunk_size)]
    IN  SelectSeq(all, LAMBDA c : c # << >>)

\* chunk_text(text, chunk_size, overlap): range() raises ValueError on a step
\* of zero and is empty on a negative step.
chunk_text(words, chunk_size, overlap) ==
    LET step == chunk_size - overlap
    IN  IF step = 0 THEN [raised |-> TRUE, chunks |-> << >>]
        ELSE IF step < 0 THEN [raised |-> FALSE, chunks |-> << >>]
        ELSE [raised |-> FALSE, chunks |-> Windows(words, chunk_size, step)]

----------------------------------------------------------------------------
(* The embedding client and the FAISS index *)

\* The coordinate the embedding service gives a text: a fixed function of
\* the text and of the input type.
EmbedVal(words, input_type) ==
    LET base == IF words = << >> THEN 0 ELSE 10 * Len(words) + words[1]
    IN  IF input_type = "search_query" THEN base + 1 ELSE base

\* cohere_client.embed(texts, input_type) when it answers: one vector per
\* text, in order, of the model's dimension.
Embed(texts, input_type) ==
    [i \in 1..Len(texts) |-> [dim |-> Dimension, val |-> EmbedVal(texts[i], input_type)]]

\* faiss.IndexFlatL2(self.dimension)
NewIndex == [d |-> Dimension, xb |-> << >>]

\* index.add(embeddings): embeddings must be an (n, d) array with d the
\* index dimension; an empty list of embeddings is a 1-d array and is refused.
IndexAddOk(idx, embeddings) ==
    /\ Len(embeddings) > 0
    /\ \A i \in 1..Len(embeddings) : embeddings[i].dim = idx.d

IndexAdd(idx, embeddings) ==
    [idx EXCEPT !.xb = @ \o [i \in 1..Len(embeddings) |-> embeddings[i].val]]

----------------------------------------------------------------------------
(* The two files *)

NoFile == [state |-> "absent", d |-> 0, ntotal |-> 0, codes |-> << >>,
           documents |-> << >>, metadatas |-> << >>]

\* a file whose write was cut short: it cannot be read back
TornFile == [NoFile EXCEPT !.state = "torn"]

\* faiss.write_index: the header (d, ntotal) and the stored coordinates
WriteIndexFile(idx) ==
    [NoFile EXCEPT !.state = "ok", !.d = idx.d, !.ntotal = Len(idx.xb), !.codes = idx.xb]

\* read_index that reads one row too few
ReadIndexFile_short(f) ==
    [d |-> f.d, xb |-> SubSeq(f.codes, 1, f.ntotal - 1)]

\* faiss.read_index of a complete file
ReadIndexFile(f) == [d |-> f.d, xb |-> SubSeq(f.codes, 1, f.ntotal)]

\* pickle.dump({'documents': ..., 'metadatas': ...})
DumpMetaFile(docs, metas) ==
    [NoFile EXCEPT !.state = "ok", !.documents = docs, !.metadatas = metas]

----------------------------------------------------------------------------
(* The memory of the service and of its stores, as one record *)

Machine ==
    [index |-> index, documents |-> documents, metadatas |-> metadatas,
     disk_index |-> disk_index, disk_meta |-> disk_meta,
     db_documents |-> db_documents]

\* RAGService.__init__ before _load_index
FreshMemory(m) ==
    [m EXCEPT !.index = NewIndex, !.documents = << >>, !.metadatas = << >>]

\* where a call can stop: an exception or the death of the process
\*   "embed"       cohere_client.embed raises
\*   "index_add"   index.add refuses the embeddings
\*   "index_open"  write_index cannot open the index file (file untouched)
\*   "index_write" write_index stops after truncating the index file
\*   "meta_open"   open(meta_path, 'wb') fails (file untouched)
\*   "meta_write"  pickle.dump stops after the file was truncated
\*   "db"          the statement on the documents table fails
\*   "none"        the call returns
SaveFaults == {"index_open", "index_write", "meta_open", "meta_write"}
Faults == {"embed"} \cup SaveFaults \cup {"db", "none"}

\* _save_index that writes the index file and forgets the metadata file
save_index_no_meta(m, fault) ==
    IF fault = "index_open" THEN m
    ELSE IF fault = "index_write" THEN [m EXCEPT !.disk_index = TornFile]
    ELSE [m EXCEPT !.disk_index = WriteIndexFile(m.index)]

\* _save_index, stopped at `fault` (a fault outside SaveFaults: not stopped)
save_index(m, fault) ==
    IF fault = "index_open" THEN m
    ELSE IF fault = "index_write" THEN [m EXCEPT !.disk_index = TornFile]
    ELSE LET m1 == [m EXCEPT !.disk_index = WriteIndexFile(m.index)]
         IN  IF fault = "meta_open" THEN m1
             ELSE IF fault = "meta_write" THEN [m1 EXCEPT !.disk_meta = TornFile]
             ELSE [m1 EXCEPT !.disk_meta = DumpMetaFile(m.documents, m.metadatas)]

\* _load_index: both files must exist, else the service starts empty.
\* loadable = neither read raises.
Loadable(m) ==
    ~ (m.disk_index.state # "absent" /\ m.disk_meta.state # "absent")
    \/ (m.disk_index.state = "ok" /\ m.disk_meta.state = "ok")

load_index(m) ==
    IF m.disk_index.state # "absent" /\ m.disk_meta.state # "absent"
    THEN [m EXCEPT !.index = ReadIndexFile(m.disk_index),
                   !.documents = m.disk_meta.documents,
                   !.metadatas = m.disk_meta.metadatas]
    ELSE m

----------------------------------------------------------------------------
(* add_document *)

Meta(filename, doc_id, chunk_id, user_email) ==
    [filename |-> filename, doc_id |-> doc_id, chunk_id |-> chunk_id,
     user_email |-> user_email]

\* the append that numbers the chunks from 1
AppendChunks_from_one(m, chunks, filename, doc_id, user_email) ==
    [m EXCEPT !.documents = @ \o chunks,
              !.metadatas = @ \o [i \in 1..Len(chunks) |->
                                    Meta(filename, doc_id, i, user_email)]]

\* lines 65-72: one text and one metadata dict per chunk, chunk_id from 0
AppendChunks(m, chunks, filename, doc_id, user_email) ==
    [m EXCEPT !.documents = @ \o chunks,
              !.metadatas = @ \o [i \in 1..Len(chunks) |->
                                    Meta(filename, doc_id, i - 1, user_email)]]

DocRow(doc_id, user_email, filename, n) ==
    [doc_id |-> doc_id, user_email |-> user_email, filename |-> filename,
     chunks_count |-> n]

\* where add_document really stops when the environment faults at `fault`:
\* index.add refuses an empty list of embeddings before anything is changed
AddStop(m, chunks, fault) ==
    IF fault # "embed" /\ ~ IndexAddOk(m.index, Embed(chunks, "search_document"))
    THEN "index_add" ELSE fault

\* add_document that appends the texts and the metadata before it asks for
\* the embeddings
add_document_run_early(m, chunks, filename, doc_id, user_email, stop) ==
    IF stop = "index_add" THEN m
    ELSE LET m1 == AppendChunks(m, chunks, filename, doc_id, user_email)
         IN  IF stop = "embed" THEN m1
             ELSE LET m2 == [m1 EXCEPT !.index =
                                IndexAdd(@, Embed(chunks, "search_document"))]
                      m3 == save_index(m2, stop)
                  IN  IF stop \in SaveFaults \/ stop = "db" THEN m3
                      ELSE [m3 EXCEPT !.db_documents =
                              @ \cup {DocRow(doc_id, user_email, filename, Len(chunks))}]

\* the state add_document leaves when it stops at `stop`
add_document_run(m, chunks, filename, doc_id, user_email, stop) ==
    IF stop \in {"embed", "index_add"} THEN m
    ELSE LET m1 == [m EXCEPT !.index = IndexAdd(@, Embed(chunks, "search_document"))]
             m2 == AppendChunks(m1, chunks, filename, doc_id, user_email)
             m3 == save_index(m2, stop)
         IN  IF stop \in SaveFaults \/ stop = "db" THEN m3
             ELSE [m3 EXCEPT !.db_documents =
                        @ \cup {DocRow(doc_id, user_email, filename, Len(chunks))}]

----------------------------------------------------------------------------
(* delete_document *)

\* the rows of this document, whoever owns it
indices_to_remove_any_owner(metas, doc_id, user_email) ==
    {i \in 1..Len(metas) : metas[i].doc_id = doc_id}

\* lines 113-116: the rows (1-based here) of this document and this owner
indices_to_remove(metas, doc_id, user_email) ==
    {i \in 1..Len(metas) :
        metas[i].doc_id = doc_id /\ metas[i].user_email = user_email}

MaxOf(S) == CHOOSE x \in S : \A y \in S : y <= x

\* del seq[i]
DelAt(seq, i) == SubSeq(seq, 1, i - 1) \o SubSeq(seq, i + 1, Len(seq))

\* lines 122-124: del, one index at a time, from the highest index down
RECURSIVE DelReverse(_, _)
DelReverse(seq, idxs) ==
    IF idxs = {} THEN seq
    ELSE DelReverse(DelAt(seq, MaxOf(idxs)), idxs \ {MaxOf(idxs)})

\* where delete_document really stops: "nomatch" is the early return False;
\* the embedding service is not called when no row is retained
DeleteStop(m, doc_id, user_email, fault) ==
    LET idxs == indices_to_remove(m.metadatas, doc_id, user_email)
    IN  IF idxs = {} THEN "nomatch"
        ELSE IF fault = "embed" /\ Len(m.documents) = Cardinality(idxs) THEN "none"
        ELSE fault

\* the state delete_document leaves when it stops at `stop`
delete_document_run(m, doc_id, user_email, stop) ==
    IF stop = "nomatch" THEN m
    ELSE LET idxs == indices_to_remove(m.metadatas, doc_id, user_email)
             m1 == [m EXCEPT !.documents = DelReverse(@, idxs),
                             !.metadatas = DelReverse(@, idxs)]
         IN  IF stop = "embed" THEN m1
             ELSE LET m2 == [m1 EXCEPT !.index =
                               IF Len(m1.documents) > 0
                               THEN IndexAdd(NewIndex, Embed(m1.documents, "search_document"))
                               ELSE NewIndex]
                      m3 == save_index(m2, stop)
                  IN  IF stop \in SaveFaults \/ stop = "db" THEN m3
                      ELSE [m3 EXCEPT !.db_documents =
                              {r \in @ : ~ (r.doc_id = doc_id /\ r.user_email = user_email)}]

----------------------------------------------------------------------------
(* query *)

\* squared L2 distance of two coordinates
Dist(a, b) == (a - b) * (a - b)

\* row r (0-based) comes before row s in the result of a search for q
Before(xb, q, r, s) ==
    \/ Dist(xb[r + 1], q) < Dist(xb[s + 1], q)
    \/ (Dist(xb[r + 1], q) = Dist(xb[s + 1], q) /\ r < s)

\* index.search(query_embedding, top_k)[1][0]: the labels (0-based rows) of
\* the top_k nearest rows, nearest first, filled up with -1
Search(idx, q, top_k) ==
    LET n == Len(idx.xb)
        Rank(r) == Cardinality({s \in 0..(n - 1) : Before(idx.xb, q, s, r)})
    IN  [k \in 1..top_k |->
            IF k <= n THEN CHOOSE r \in 0..(n - 1) : Rank(r) = k - 1 ELSE -1]

\* the labels for which `if idx < len(self.documents)` is true
Kept(labels, n) == SelectSeq(labels, LAMBDA l : l < n)

\* seq[idx] of Python for idx >= -1: -1 is the last element
PyIndexOk(seq, idx) == IF idx < 0 THEN Len(seq) >= - idx ELSE idx < Len(seq)
PyIndex(seq, idx) == IF idx < 0 THEN seq[Len(seq) + 1 + idx] ELSE seq[idx + 1]

\* lines 246-253: the (text, metadata) pairs the loop collects
Retrieved(m, labels) ==
    LET kept == Kept(labels, Len(m.documents))
    IN  [i \in 1..Len(kept) |->
            [ctx |-> PyIndex(m.documents, kept[i]),
             meta |-> PyIndex(m.metadatas, kept[i])]]

\* the loop raises IndexError when it indexes an empty list with -1
RetrieveOk(m, labels) ==
    \A i \in 1..Len(labels) :
        labels[i] < Len(m.documents) =>
            PyIndexOk(m.documents, labels[i]) /\ PyIndexOk(m.metadatas, labels[i])

----------------------------------------------------------------------------
(* The calls, as steps of the system *)

\* op, user_email, doc_id: the call; stop, ret: where and how it ended;
\* nchunks: the chunks chunk_text gave add_document; embed_calls: the calls
\* made to cohere_client.embed; top_k, labels, hits: the search of a query
\* and what its loop collected; conversation_id, question, prompt: a chat
\* turn and the messages given to the completion client; http: the status
\* code of the response of an API handler; filename, nwords: the file of an
\* upload and the words of its extracted text; docs: the rows
\* get_user_documents returns
NoCall == [op |-> "none", user_email |-> "", doc_id |-> 0, stop |-> "none",
           ret |-> "none", hits |-> << >>, nchunks |-> 0, embed_calls |-> 0,
           top_k |-> 0, labels |-> << >>, conversation_id |-> 0,
           question |-> << >>, prompt |-> << >>, http |-> 0,
           filename |-> << >>, nwords |-> 0, docs |-> {}]

\* no call of chunk_text on its own
NoChunking == [words |-> << >>, chunk_size |-> DefaultChunkSize,
               overlap |-> DefaultOverlap, done |-> FALSE, raised |-> FALSE,
               chunks |-> << >>]

Assign(m) ==
    /\ index' = m.index
    /\ documents' = m.documents
    /\ metadatas' = m.metadatas
    /\ disk_index' = m.disk_index
    /\ disk_meta' = m.disk_meta
    /\ db_documents' = m.db_documents

\* the service after its construction with no file on disk, the stores empty
InitService ==
    /\ status = "serving"
    /\ index = NewIndex
    /\ documents = << >>
    /\ metadatas = << >>
    /\ disk_index = NoFile
    /\ disk_meta = NoFile
    /\ db_documents = {}
    /\ next_uuid = 1
    /\ faults = 0
    /\ last = NoCall
    /\ conversations = {}
    /\ messages = << >>
    /\ clock = 0
    /\ inflight = {}
    /\ turns = 0

Init ==
    /\ InitService
    /\ chunked = NoChunking

\* the environment may make a call fail while it has faults left; the
\* process dies (crash) only inside _save_index, its death elsewhere is Stop
MayFault(fault, crash) ==
    /\ fault # "none" => faults < MaxFaults
    /\ crash => fault \in SaveFaults

Charge(stop) ==
    faults' = IF stop \in Faults \ {"none"} THEN faults + 1 ELSE faults

\* rag_service.add_document(text, filename, user_email); the environment
\* faults at `fault`, by an exception or (crash) by the death of the process
AddDocument(text, filename, user_email, fault, crash) ==
    /\ status = "serving"
    /\ next_uuid <= MaxDocs
    /\ MayFault(fault, crash)
    /\ \E chunks \in {chunk_text(text, DefaultChunkSize, DefaultOverlap).chunks} :
       \E stop \in {AddStop(Machine, chunks, fault)} :
       \E m \in {add_document_run(Machine, chunks, filename, next_uuid, user_email, stop)} :
       LET died == crash /\ stop # "none"
       IN  /\ Assign(IF died THEN FreshMemory(m) ELSE m)
           /\ status' = IF died THEN "down" ELSE "serving"
           /\ last' = [NoCall EXCEPT !.op = "add", !.user_email = user_email,
                          !.doc_id = next_uuid, !.stop = stop,
                          !.nchunks = Len(chunks), !.embed_calls = 1,
                          !.ret = IF died THEN "died"
                                  ELSE IF stop = "none" THEN "result" ELSE "raised"]
           /\ Charge(stop)
    /\ next_uuid' = next_uuid + 1
    /\ UNCHANGED <<chatvars, chunked>>

\* rag_service.delete_document(doc_id, user_email)
DeleteDocument(doc_id, user_email, fault, crash) ==
    /\ status = "serving"
    /\ MayFault(fault, crash)
    /\ \E stop \in {DeleteStop(Machine, doc_id, user_email, fault)} :
       \E m \in {delete_document_run(Machine, doc_id, user_email, stop)} :
       LET died == crash /\ stop \notin {"none", "nomatch"}
       IN  /\ Assign(IF died THEN FreshMemory(m) ELSE m)
           /\ status' = IF died THEN "down" ELSE "serving"
           /\ last' = [NoCall EXCEPT !.op = "delete", !.user_email = user_email,
                          !.doc_id = doc_id, !.stop = stop,
                          !.embed_calls = IF stop = "nomatch"
                                             \/ Len(m.documents) = 0 THEN 0 ELSE 1,
                          !.ret = IF died THEN "died"
                                  ELSE IF stop = "nomatch" THEN "False"
                                  ELSE IF stop = "none" THEN "True" ELSE "raised"]
           /\ Charge(stop)
    /\ UNCHANGED <<next_uuid, chatvars, chunked>>

\* query_documents of user_email: rag_service.query(question, top_k).
\* fault: "embed" (the embedding call raises), "completion" (the completion
\* call raises) or "none".
Query(user_email, question, top_k, fault) ==
    /\ status = "serving"
    /\ MayFault(fault, FALSE)
    /\ \E labels \in {Search(index, EmbedVal(question, "search_query"), top_k)} :
       LET stop == IF fault = "embed" THEN "embed"
                   ELSE IF ~ RetrieveOk(Machine, labels) THEN "index_error"
                   ELSE fault
       IN  /\ last' = [NoCall EXCEPT !.op = "query", !.user_email = user_email,
                       !.stop = stop, !.embed_calls = 1, !.top_k = top_k,
                       !.question = question,
                       !.labels = IF stop = "embed" THEN << >> ELSE labels,
                       !.ret = IF stop = "none" THEN "result" ELSE "raised",
                       !.hits = IF stop \in {"embed", "index_error"} THEN << >>
                                ELSE Retrieved(Machine, labels)]
           /\ Charge(stop)
    /\ UNCHANGED <<status, index, documents, metadatas, disk_index, disk_meta,
                   db_documents, next_uuid, chatvars, chunked>>

\* the process ends between two calls; its memory is lost
Stop ==
    /\ status = "serving"
    /\ Assign(FreshMemory(Machine))
    /\ status' = "down"
    /\ last' = [NoCall EXCEPT !.op = "stop"]
    /\ UNCHANGED <<next_uuid, faults, chatvars, chunked>>

\* rag_service = RAGService(): __init__ and _load_index; a read that raises
\* ends the import of the module, and the process with it
Start ==
    /\ status = "down"
    /\ IF Loadable(Machine)
       THEN /\ Assign(load_index(FreshMemory(Machine)))
            /\ status' = "serving"
       ELSE /\ Assign(Machine)
            /\ status' = "failed"
    /\ last' = [NoCall EXCEPT !.op = "start"]
    /\ UNCHANGED <<next_uuid, faults, chatvars, chunked>>

TopKs == {1, DefaultTopK}

\* The life of the index: ingest, delete, the end and the start of the process
Next ==
    \/ \E text \in Texts, filename \in FileNames, user_email \in Users,
          fault \in Faults, crash \in BOOLEAN :
            AddDocument(text, filename, user_email, fault, crash)
    \/ \E doc_id \in 1..MaxDocs, user_email \in Users, fault \in Faults,
          crash \in BOOLEAN :
            DeleteDocument(doc_id, user_email, fault, crash)
    \/ Stop
    \/ Start

Spec == Init /\ [][Next]_vars

\* Retrieval: ingest and delete (with their upstream and storage errors) and
\* the queries made in between
NextQuery ==
    \/ \E text \in Texts, filename \in FileNames, user_email \in Users,
          fault \in Faults :
            AddDocument(text, filename, user_email, fault, FALSE)
    \/ \E doc_id \in 1..MaxDocs, user_email \in Users, fault \in Faults :
            DeleteDocument(doc_id, user_email, fault, FALSE)
    \/ \E user_email \in Users, question \in Questions, top_k \in TopKs,
          fault \in {"embed", "completion", "none"} :
            Query(user_email, question, top_k, fault)

SpecQuery == Init /\ [][NextQuery]_vars

----------------------------------------------------------------------------
(* chunk_text on its own: every text and every (chunk_size, overlap) *)

\* the longest text and the largest chunk_size given to chunk_text
MaxWords == 4
MaxChunkSize == 3

WordSeqs == UNION {[1..k -> {1, 2}] : k \in 0..MaxWords}

InitChunk ==
    /\ InitService
    /\ chunked \in {[NoChunking EXCEPT !.words = w, !.chunk_size = c, !.overlap = o] :
                      w \in WordSeqs, c \in 1..MaxChunkSize, o \in 0..(MaxChunkSize + 1)}

\* self.chunk_text(text, chunk_size, overlap)
ChunkText ==
    /\ ~ chunked.done
    /\ \E r \in {chunk_text(chunked.words, chunked.chunk_size, chunked.overlap)} :
          chunked' = [chunked EXCEPT !.done = TRUE, !.raised = r.raised,
                                     !.chunks = r.chunks]
    /\ UNCHANGED <<status, index, documents, metadatas, disk_index, disk_meta,
                   db_documents, next_uuid, faults, last, chatvars>>

NextChunk == ChunkText

SpecChunk == InitChunk /\ [][NextChunk]_vars

----------------------------------------------------------------------------
(* What the claims are stated with *)

Rows(seq) == 1..Len(seq)

\* the rows of metas that belong to document doc_id of owner user_email
Matching(metas, doc_id, user_email) ==
    {i \in Rows(metas) : metas[i].doc_id = doc_id /\ metas[i].user_email = user_email}

\* seq without the positions in idxs, the others in their order
Retain(seq, idxs) ==
    LET keep == Rows(seq) \ idxs
    IN  [k \in 1..Cardinality(keep) |->
            seq[CHOOSE i \in keep : Cardinality({j \in keep : j < i}) = k - 1]]

\* the rows of one document are the windows of one text, each under its chunk_id
Described ==
    \A d \in {metadatas[i].doc_id : i \in Rows(metadatas)} :
        \E text \in Texts :
            LET chunks == chunk_text(text, DefaultChunkSize, DefaultOverlap).chunks
            IN  \A i \in Rows(metadatas) :
                    metadatas[i].doc_id = d =>
                        /\ i <= Len(documents)
                        /\ metadatas[i].chunk_id + 1 <= Len(chunks)
                        /\ documents[i] = chunks[metadatas[i].chunk_id + 1]

Aligned ==
    /\ Len(index.xb) = Len(documents)
    /\ Len(metadatas) = Len(documents)
    /\ \A i \in Rows(index.xb) :
          i <= Len(documents) => index.xb[i] = EmbedVal(documents[i], "search_document")
    /\ Described

MemoryUnchanged == UNCHANGED <<index, documents, metadatas>>
StoresUnchanged == UNCHANGED <<disk_index, disk_meta, db_documents>>

\* the two files hold what the memory holds
DiskIsMemory ==
    /\ disk_index.state = "ok"
    /\ disk_meta.state = "ok"
    /\ disk_index.d = index.d
    /\ disk_index.ntotal = Len(index.xb)
    /\ disk_index.codes = index.xb
    /\ disk_meta.documents = documents
    /\ disk_meta.metadatas = metadatas

\* document doc_id shows nowhere: not in the memory, not in the files, not
\* in the documents table
NoTrace(doc_id) ==
    /\ \A i \in Rows(metadatas) : metadatas[i].doc_id # doc_id
    /\ \A i \in Rows(disk_meta.metadatas) : disk_meta.metadatas[i].doc_id # doc_id
    /\ \A r \in db_documents : r.doc_id # doc_id

\* the two files are one complete saved state
PairComplete ==
    \/ (disk_index.state = "absent" /\ disk_meta.state = "absent")
    \/ /\ disk_index.state = "ok"
       /\ disk_meta.state = "ok"
       /\ disk_index.ntotal = Len(disk_meta.documents)
       /\ disk_index.ntotal = Len(disk_meta.metadatas)
       /\ \A i \in 1..disk_index.ntotal :
             disk_index.codes[i] = EmbedVal(disk_meta.documents[i], "search_document")

----------------------------------------------------------------------------
(* The claims *)

\* C1. Between calls, whatever each add_document and delete_document call
\* did (returned or raised), the index, documents and metadatas have the
\* same number of rows, row i of the index is the vector of documents[i],
\* and metadatas[i] describes it.
C1_Alignment ==
    (status = "serving" /\ last.op \in {"add", "delete"}) => Aligned

\* C2. A query of one user never retrieves (for its context block and its
\* sources) a chunk whose metadata names another owner.
C2_OwnerIsolation ==
    last.op = "query" =>
        \A i \in Rows(last.hits) : last.hits[i].meta.user_email = last.user_email

\* C3. A delete_document call that returns True removes from the index, from
\* documents and from metadatas exactly the rows of that document and owner:
\* the others stay, paired and in order, and each row count goes down by the
\* number of matching rows.
C3_DeleteExact ==
    [][ (last'.op = "delete" /\ last'.ret = "True") =>
          LET idxs == Matching(metadatas, last'.doc_id, last'.user_email)
          IN  /\ documents' = Retain(documents, idxs)
              /\ metadatas' = Retain(metadatas, idxs)
              /\ index'.xb = Retain(index.xb, idxs)
              /\ Len(index'.xb) = Len(index.xb) - Cardinality(idxs) ]_vars

\* C4. A delete_document call for which no row matches (doc_id, owner)
\* returns False, does not raise, and changes neither the memory, nor the
\* two files, nor the documents table.
C4_DeleteUnmatchedNoOp ==
    [][ (last'.op = "delete"
            /\ Matching(metadatas, last'.doc_id, last'.user_email) = {}) =>
          /\ last'.ret = "False"
          /\ MemoryUnchanged
          /\ StoresUnchanged ]_vars

\* a delete by a user who does not own the document, whose rows are there
C4_Witness ==
    /\ last.op = "delete"
    /\ last.ret = "False"
    /\ \E i \in Rows(metadatas) :
          metadatas[i].doc_id = last.doc_id /\ metadatas[i].user_email # last.user_email

\* C5. When add_document returns its result, or delete_document returns
\* True, the two files hold exactly the rows, texts and metadata of the
\* memory, in the same order.
C5_PersistBeforeAck ==
    ((last.op = "add" /\ last.ret = "result")
        \/ (last.op = "delete" /\ last.ret = "True")) => DiskIsMemory

\* a delete that returned True and retained rows, after both files were there
C5_Witness ==
    /\ last.op = "delete"
    /\ last.ret = "True"
    /\ Len(documents) > 0
    /\ DiskIsMemory

\* C6. An add_document call whose embedding call fails leaves the index,
\* documents, metadatas, the two files and the documents table as they were.
C6_EmbedFailureNoTrace ==
    [][ (last'.op = "add" /\ last'.stop = "embed") =>
          MemoryUnchanged /\ StoresUnchanged ]_vars

\* an ingest stopped by the embedding call, with rows already in the index
C6_Witness ==
    /\ last.op = "add"
    /\ last.stop = "embed"
    /\ last.ret = "raised"
    /\ Len(documents) > 0
    /\ NoTrace(last.doc_id)

\* C7. An add_document call that fails, at whatever step, leaves no trace of
\* its document: no row in the memory (so none a search can return), none in
\* the files, no row in the documents table.
C7_IngestAllOrNothing ==
    (last.op = "add" /\ last.ret = "raised") => NoTrace(last.doc_id)

\* C8. After the process died inside _save_index, the two files are one
\* complete saved state: never a cut file, never an index file and a
\* metadata file with different rows.
C8_CrashAtomic ==
    (last.ret = "died" /\ last.stop \in SaveFaults) => PairComplete

\* C9. A start that finds both files, with a row count in the index file
\* other than the one in the metadata file, fails: the service does not
\* serve.
C9_RestoreRejectsMismatch ==
    (last.op = "start"
        /\ disk_index.state = "ok" /\ disk_meta.state = "ok"
        /\ (disk_index.ntotal # Len(disk_meta.metadatas)
              \/ disk_index.ntotal # Len(disk_meta.documents)))
    => status = "failed"

----------------------------------------------------------------------------
(* The claims on chunk_text *)

\* chunk without its first n words
DropFirst(chunk, n) == SubSeq(chunk, n + 1, Len(chunk))

\* the chunks put end to end, each but the first without its first n words
RECURSIVE JoinWithout(_, _)
JoinWithout(chunks, n) ==
    IF chunks = << >> THEN << >>
    ELSE IF Len(chunks) = 1 THEN chunks[1]
    ELSE JoinWithout(SubSeq(chunks, 1, Len(chunks) - 1), n)
            \o DropFirst(chunks[Len(chunks)], n)

\* C11. For 0 <= overlap < chunk_size, chunk_text returns chunks of 1 to
\* chunk_size words, each next chunk starts with the last `overlap` words of
\* the one before, and the chunks without their overlaps give back the text.
C11_ChunkWindows ==
    (chunked.done /\ chunked.overlap < chunked.chunk_size) =>
        LET cs == chunked.chunks
            ov == chunked.overlap
        IN  /\ ~ chunked.raised
            /\ \A k \in Rows(cs) : Len(cs[k]) >= 1 /\ Len(cs[k]) <= chunked.chunk_size
            /\ \A k \in 1..(Len(cs) - 1) :
                  /\ Len(cs[k]) >= ov
                  /\ Len(cs[k + 1]) >= ov
                  /\ SubSeq(cs[k], Len(cs[k]) - ov + 1, Len(cs[k]))
                        = SubSeq(cs[k + 1], 1, ov)
            /\ JoinWithout(cs, ov) = chunked.words

\* C12. For overlap >= chunk_size, chunk_text raises: it returns no list.
C12_BadOverlapRaises ==
    (chunked.done /\ chunked.overlap >= chunked.chunk_size) => chunked.raised

----------------------------------------------------------------------------
(* The claims on ingest of an empty text and on the shape of a search *)

\* C13. add_document of a text that gives no chunk fails with an
\* empty-document error of its own, without a call to the embedding client,
\* and leaves no trace of the document.
C13_EmptyDocumentRejected ==
    (last.op = "add" /\ last.nchunks = 0) =>
        /\ last.ret = "raised"
        /\ last.stop = "empty_document"
        /\ last.embed_calls = 0
        /\ NoTrace(last.doc_id)

\* C14. A search of an index of n rows with top_k >= 1 raises nothing and
\* gives exactly min(top_k, n) sources, source i being the row of rank i, in
\* non-decreasing distance with ties in ascending row order, each row at
\* most once; this where the search fills a short result up with -1.
C14_SearchShape ==
    (last.op = "query" /\ last.stop # "embed") =>
        LET n == Len(index.xb)
            q == EmbedVal(last.question, "search_query")
        IN  /\ last.stop # "index_error"
            /\ Len(last.hits) = Min(last.top_k, n)
            /\ \A i \in Rows(last.hits) :
                  /\ last.labels[i] \in 0..(n - 1)
                  /\ last.labels[i] < Len(documents)
                  /\ last.hits[i].ctx = documents[last.labels[i] + 1]
                  /\ \A j \in Rows(last.hits) :
                        i < j => Before(index.xb, q, last.labels[i], last.labels[j])

----------------------------------------------------------------------------
(* Chat: chat_with_documents and query_with_conversation *)

\* the turns answered, the conversations opened, the turns being handled at
\* one time and the seconds of CURRENT_TIMESTAMP that pass
MaxTurns == 7
MaxConvs == 2
MaxInflight == 2
MaxClock == 1

\* LIMIT 10 of the SELECT, history[-5:], ctx[:200]
HistoryLimit == 10
HistoryUsed == 5
SourceChars == 200

\* a string sent to or stored for the chat: the context block (empty outside
\* the user message of a prompt) and the words after it
Plain(words) == [context |-> << >>, text |-> words]
SystemContent == Plain(<< >>)

\* the question of the n-th chat request that gets its answer
QuestionOf(n) == <<n>>

\* seq[:n] and seq[-n:] of Python, n >= 1
Take(seq, n) == SubSeq(seq, 1, Min(n, Len(seq)))
LastN(seq, n) == SubSeq(seq, Len(seq) - Min(n, Len(seq)) + 1, Len(seq))

\* ORDER BY created_at ASC: by created_at, rows of one second in rowid order
ByCreatedAt(rows) ==
    LET n == Len(rows)
        Rank(i) == Cardinality({j \in 1..n :
                       \/ rows[j].created_at < rows[i].created_at
                       \/ (rows[j].created_at = rows[i].created_at /\ j < i)})
    IN  [k \in 1..n |-> rows[CHOOSE i \in 1..n : Rank(i) = k - 1]]

\* the rows of one conversation, in rowid order
OfConversation(msgs, conversation_id) ==
    SelectSeq(msgs, LAMBDA r : r.conversation_id = conversation_id)

\* lines 156-162: SELECT role, content ... ORDER BY created_at ASC LIMIT 10
SelectHistory(msgs, conversation_id) ==
    LET rows == Take(ByCreatedAt(OfConversation(msgs, conversation_id)), HistoryLimit)
    IN  [k \in 1..Len(rows) |-> [role |-> rows[k].role, content |-> rows[k].content]]

\* line 182: "Context i: ctx" for each retrieved chunk, in the order retrieved
ContextText(hits) == [i \in 1..Len(hits) |-> [label |-> i, ctx |-> hits[i].ctx]]

\* build_messages that takes the first loaded messages for the last ones
build_messages_first(history, hits, question) ==
    <<[role |-> "system", content |-> SystemContent]>>
    \o Take(history, HistoryUsed)
    \o <<[role |-> "user",
          content |-> [context |-> ContextText(hits), text |-> question]]>>

\* lines 185-201: the messages given to the completion client
build_messages(history, hits, question) ==
    <<[role |-> "system", content |-> SystemContent]>>
    \o LastN(history, HistoryUsed)
    \o <<[role |-> "user",
          content |-> [context |-> ContextText(hits), text |-> question]]>>

\* the answer of the completion client: it names the question it was asked
Complete(prompt) == Plain(<<0>> \o prompt[Len(prompt)].content.text)

\* lines 226-233: sources, from zip(metadatas, contexts); a word stands for a
\* character of ctx[:200]
Sources(hits) ==
    [i \in 1..Len(hits) |->
        [filename |-> hits[i].meta.filename, chunk_id |-> hits[i].meta.chunk_id,
         text |-> Take(hits[i].ctx, SourceChars)]]

MessageRow(conversation_id, role, content, created_at) ==
    [conversation_id |-> conversation_id, role |-> role, content |-> content,
     created_at |-> created_at]

\* the two INSERTs, the answer stored before the question
insert_turn_answer_first(msgs, conversation_id, question, answer, t) ==
    msgs \o <<MessageRow(conversation_id, "assistant", answer, t),
              MessageRow(conversation_id, "user", Plain(question), t)>>

\* the two INSERTs, the answer not stored
insert_turn_question_only(msgs, conversation_id, question, answer, t) ==
    msgs \o <<MessageRow(conversation_id, "user", Plain(question), t)>>

\* lines 214-224: the two INSERTs of one transaction, in the second t
insert_turn(msgs, conversation_id, question, answer, t) ==
    msgs \o <<MessageRow(conversation_id, "user", Plain(question), t),
              MessageRow(conversation_id, "assistant", answer, t)>>

\* where the handler stops before the transaction of line 214
ChatStop(m, labels, fault) ==
    IF fault \in {"db", "embed"} THEN fault
    ELSE IF ~ RetrieveOk(m, labels) THEN "index_error"
    ELSE fault

\* chat_with_documents of user_email up to the answer of the completion
\* client (api/rag.py:89-108 and rag.py:153-211). conversation_id 0: none
\* given. fault: "db" (the INSERT of the conversation or the SELECT fails),
\* "embed", "completion" or "none".
ChatRead(user_email, conversation_id, top_k, fault) ==
    /\ status = "serving"
    /\ turns < MaxTurns
    /\ Cardinality(inflight) < MaxInflight
    /\ conversation_id = 0 => Cardinality(conversations) < MaxConvs
    /\ MayFault(fault, FALSE)
    /\ \E cid \in {IF conversation_id = 0 THEN next_uuid ELSE conversation_id} :
       \E question \in {QuestionOf(turns + 1)} :
       \E labels \in {Search(index, EmbedVal(question, "search_query"), top_k)} :
       \E stop \in {ChatStop(Machine, labels, fault)} :
       \E hits \in {IF stop \in {"db", "embed", "index_error"} THEN << >>
                    ELSE Retrieved(Machine, labels)} :
       \E prompt \in {IF stop \in {"db", "embed", "index_error"} THEN << >>
                      ELSE build_messages(SelectHistory(messages, cid), hits, question)} :
          /\ conversations' = IF conversation_id = 0 /\ stop # "db"
                              THEN conversations \cup {[id |-> cid, user_email |-> user_email]}
                              ELSE conversations
          /\ next_uuid' = IF conversation_id = 0 THEN next_uuid + 1 ELSE next_uuid
          /\ inflight' = IF stop = "none"
                         THEN inflight \cup {[turn |-> turns + 1, conversation_id |-> cid,
                                              user_email |-> user_email,
                                              question |-> question,
                                              answer |-> Complete(prompt),
                                              sources |-> Sources(hits)]}
                         ELSE inflight
          /\ last' = [NoCall EXCEPT !.op = "chat_read", !.user_email = user_email,
                         !.conversation_id = cid, !.question = question,
                         !.top_k = top_k, !.stop = stop,
                         !.embed_calls = IF stop = "db" THEN 0 ELSE 1,
                         !.labels = IF stop \in {"db", "embed"} THEN << >> ELSE labels,
                         !.hits = hits, !.prompt = prompt,
                         !.ret = IF stop = "none" THEN "pending" ELSE "raised",
                         !.http = IF stop = "none" THEN 0 ELSE 500]
          /\ turns' = IF stop = "none" THEN turns + 1 ELSE turns
          /\ Charge(stop)
    /\ UNCHANGED <<status, index, documents, metadatas, disk_index, disk_meta,
                   db_documents, messages, clock, chunked>>

\* the rest of the handler (rag.py:213-235 and api/rag.py:110-116): the
\* transaction of the two INSERTs, in the second t, and the response
ChatWrite(p, fault, t) ==
    /\ status = "serving"
    /\ p \in inflight
    /\ MayFault(fault, FALSE)
    /\ messages' = IF fault = "db" THEN messages
                   ELSE insert_turn(messages, p.conversation_id, p.question,
                                    p.answer, t)
    /\ clock' = IF fault = "db" THEN clock ELSE t
    /\ inflight' = inflight \ {p}
    /\ last' = [NoCall EXCEPT !.op = "chat_write", !.user_email = p.user_email,
                   !.conversation_id = p.conversation_id, !.question = p.question,
                   !.stop = fault,
                   !.ret = IF fault = "db" THEN "raised" ELSE "result",
                   !.http = IF fault = "db" THEN 500 ELSE 200]
    /\ Charge(fault)
    /\ UNCHANGED <<status, index, documents, metadatas, disk_index, disk_meta,
                   db_documents, next_uuid, conversations, turns, chunked>>

\* the service after its construction, and after one document of alice
NewMachine ==
    [index |-> NewIndex, documents |-> << >>, metadatas |-> << >>,
     disk_index |-> NoFile, disk_meta |-> NoFile, db_documents |-> {}]
Ingested ==
    add_document_run(NewMachine,
                     chunk_text(<<1, 2>>, DefaultChunkSize, DefaultOverlap).chunks,
                     "a.pdf", 1, "alice", "none")

\* the chat starts on a service that is empty or holds one document
InitChat ==
    /\ status = "serving"
    /\ \E m \in {NewMachine, Ingested} :
          /\ index = m.index
          /\ documents = m.documents
          /\ metadatas = m.metadatas
          /\ disk_index = m.disk_index
          /\ disk_meta = m.disk_meta
          /\ db_documents = m.db_documents
          /\ next_uuid = Cardinality(m.db_documents) + 1
    /\ faults = 0
    /\ last = NoCall
    /\ conversations = {}
    /\ messages = << >>
    /\ clock = 0
    /\ inflight = {}
    /\ turns = 0
    /\ chunked = NoChunking

\* One worker and one long conversation: a handler runs to its end before
\* the next request is taken (the handlers are coroutines without an await).
NextChat ==
    \/ \E user_email \in Users,
          conversation_id \in {0} \cup {c.id : c \in conversations},
          top_k \in TopKs, fault \in {"db", "embed", "completion", "none"} :
            /\ inflight = {}
            /\ conversation_id = 0 => conversations = {}
            /\ ChatRead(user_email, conversation_id, top_k, fault)
    \/ \E p \in inflight, fault \in {"db", "none"}, t \in clock..MaxClock :
            ChatWrite(p, fault, t)

SpecChat == InitChat /\ [][NextChat]_vars

\* the turns asked where turns are handled at the same time
MaxRacing == 2

\* Several workers on one database: the turns of up to MaxInflight requests
\* of one user interleave, each transaction being one step.
NextTurns ==
    \/ \E user_email \in {"alice"},
          conversation_id \in {0} \cup {c.id : c \in conversations},
          top_k \in TopKs, fault \in {"db", "embed", "completion", "none"} :
            /\ turns < MaxRacing
            /\ ChatRead(user_email, conversation_id, top_k, fault)
    \/ \E p \in inflight, fault \in {"db", "none"}, t \in clock..MaxClock :
            ChatWrite(p, fault, t)

SpecTurns == InitChat /\ [][NextTurns]_vars

----------------------------------------------------------------------------
(* The claims on chat *)

\* a chat turn that got as far as building its prompt
PromptBuilt == last.op = "chat_read" /\ last.stop \in {"completion", "none"}

\* the stored messages of a conversation, oldest first
Stored(conversation_id) == ByCreatedAt(OfConversation(messages, conversation_id))

\* C15. The history query_with_conversation gives the completion client is
\* the min(5, m) most recent of the m stored messages of the conversation,
\* oldest first, so the turn just before is always part of the prompt.
C15_HistoryIsLatest ==
    PromptBuilt =>
        LET rows == Stored(last.conversation_id)
            m == Len(rows)
            k == Min(HistoryUsed, m)
        IN  /\ Len(last.prompt) = k + 2
            /\ \A i \in 1..k :
                  /\ last.prompt[1 + i].role = rows[m - k + i].role
                  /\ last.prompt[1 + i].content = rows[m - k + i].content

\* the row (1-based) that documents[idx] of Python reads
RowOf(idx) == IF idx < 0 THEN Len(documents) + 1 + idx ELSE idx + 1

Answered(msgs) ==
    \A i \in Rows(msgs) :
        msgs[i].role = "user" =>
            /\ i < Len(msgs)
            /\ msgs[i + 1].role = "assistant"
            /\ msgs[i + 1].conversation_id = msgs[i].conversation_id

\* C17. A chat turn that returns appends exactly two messages to its
\* conversation, the question and then the answer, and nothing to another
\* conversation; a turn that fails appends nothing; so every stored question
\* is followed at once by its answer.
C17_TurnRecorded ==
    [][/\ (last'.op = "chat_write" /\ last'.ret = "result") =>
             /\ Len(messages') = Len(messages) + 2
             /\ SubSeq(messages', 1, Len(messages)) = messages
             /\ \A i \in 1..2 :
                   messages'[Len(messages) + i].conversation_id = last'.conversation_id
             /\ messages'[Len(messages) + 1].role = "user"
             /\ messages'[Len(messages) + 1].content = Plain(last'.question)
             /\ messages'[Len(messages) + 2].role = "assistant"
             /\ \E p \in inflight \ inflight' :
                   /\ p.question = last'.question
                   /\ messages'[Len(messages) + 2].content = p.answer
             /\ \A c \in conversations :
                   c.id # last'.conversation_id =>
                       OfConversation(messages', c.id) = OfConversation(messages, c.id)
       /\ (last'.op \in {"chat_read", "chat_write"} /\ last'.ret # "result") =>
             messages' = messages
       /\ Answered(messages')]_vars

\* a turn returned while another conversation holds messages, after a turn
\* that failed
C17_Witness ==
    /\ last.op = "chat_write"
    /\ last.ret = "result"
    /\ faults > 0
    /\ \E i \in Rows(messages) : messages[i].conversation_id # last.conversation_id

----------------------------------------------------------------------------
(* The claims on requests handled at the same time *)

\* C18. The calls of one process never overlap (each action is one whole
\* handler), and a search never sees an index whose row count differs from
\* len(documents) or len(metadatas).
C18_SearchSeesAligned ==
    (last.op = "query" /\ last.stop # "embed") =>
        /\ Len(index.xb) = Len(documents)
        /\ Len(metadatas) = Len(documents)

\* C19. However two chat turns on one conversation interleave, the stored
\* messages of the conversation, oldest first, are pairs: a question and,
\* next to it, the answer to that question.
C19_TurnsAdjacent ==
    \A c \in conversations :
        LET rows == Stored(c.id)
        IN  /\ Len(rows) % 2 = 0
            /\ \A k \in Rows(rows) :
                  k % 2 = 1 =>
                      /\ rows[k].role = "user"
                      /\ rows[k + 1].role = "assistant"
                      /\ rows[k + 1].content = Plain(<<0>> \o rows[k].content.text)

\* two turns on one conversation were handled at the same time: the turn
\* that was asked second is stored first
C19_Witness ==
    \E i, j \in Rows(messages) :
        /\ i < j
        /\ messages[i].conversation_id = messages[j].conversation_id
        /\ messages[i].role = "user"
        /\ messages[j].role = "user"
        /\ messages[i].content.text[1] > messages[j].content.text[1]

----------------------------------------------------------------------------
(* Upload: the handler upload_document *)

\* file names, as their characters
PdfSuffix == <<".", "p", "d", "f">>
UploadNames == {<<"a">> \o PdfSuffix, <<"a", ".", "t", "x", "t">>, <<"p", "d", "f">>}

\* str.endswith
EndsWith(name, suffix) ==
    /\ Len(name) >= Len(suffix)
    /\ SubSeq(name, Len(name) - Len(suffix) + 1, Len(name)) = suffix

\* where upload_document stops, and on what
\*   "not_pdf"  line 23, before the try block
\*   "extract"  extract_text_from_pdf raises
\*   "no_text"  line 29, inside the try block
\*   else       where add_document stops
UploadStop(m, filename, text, fault) ==
    IF ~ EndsWith(filename, PdfSuffix) THEN "not_pdf"
    ELSE IF fault = "extract" THEN "extract"
    ELSE IF text = << >> THEN "no_text"
    ELSE AddStop(m, chunk_text(text, DefaultChunkSize, DefaultOverlap).chunks, fault)

\* the status of the response: the HTTPException of line 23 goes out as it
\* is; whatever is raised in the try block, the HTTPException of line 29
\* included, is caught by `except Exception` (line 39) and goes out as 500
UploadStatus(stop) ==
    IF stop = "not_pdf" THEN 400
    ELSE IF stop = "none" THEN 200
    ELSE 500

\* upload_document of user_email: a file of this name whose extracted text is
\* `text`; fault: "extract", a fault of add_document, or "none"
UploadDocument(filename, text, user_email, fault) ==
    /\ status = "serving"
    /\ next_uuid <= MaxDocs
    /\ MayFault(fault, FALSE)
    /\ \E stop \in {UploadStop(Machine, filename, text, fault)} :
       \E called \in {stop \notin {"not_pdf", "extract", "no_text"}} :
       \E chunks \in {chunk_text(text, DefaultChunkSize, DefaultOverlap).chunks} :
       \E m \in {IF called
                 THEN add_document_run(Machine, chunks, filename, next_uuid,
                                       user_email, stop)
                 ELSE Machine} :
          /\ Assign(m)
          /\ next_uuid' = IF called THEN next_uuid + 1 ELSE next_uuid
          /\ last' = [NoCall EXCEPT !.op = "upload", !.user_email = user_email,
                         !.doc_id = IF called THEN next_uuid ELSE 0,
                         !.filename = filename, !.nwords = Len(text),
                         !.stop = stop,
                         !.nchunks = IF called THEN Len(chunks) ELSE 0,
                         !.embed_calls = IF called THEN 1 ELSE 0,
                         !.ret = IF stop = "none" THEN "result" ELSE "raised",
                         !.http = UploadStatus(stop)]
          /\ Charge(stop)
    /\ UNCHANGED <<status, chatvars, chunked>>

NextApi ==
    \E filename \in UploadNames, text \in Texts, user_email \in Users,
       fault \in {"extract"} \cup (Faults \ SaveFaults) :
        UploadDocument(filename, text, user_email, fault)

SpecApi == Init /\ [][NextApi]_vars

\* C20. An upload whose file name does not end in .pdf is answered 400, and
\* so is an upload whose extracted text is empty; in both add_document is
\* not called and nothing is stored; 500 is answered only to a failure of
\* the processing.
C20_UploadStatuses ==
    last.op = "upload" =>
        /\ ~ EndsWith(last.filename, PdfSuffix) =>
              last.http = 400 /\ last.embed_calls = 0 /\ last.doc_id = 0
        /\ (EndsWith(last.filename, PdfSuffix) /\ last.nwords = 0
              /\ last.stop # "extract") =>
              last.http = 400 /\ last.embed_calls = 0 /\ last.doc_id = 0
        /\ last.http = 500 =>
              last.stop \in {"extract", "embed", "index_add", "db"} \cup SaveFaults

----------------------------------------------------------------------------
(* The reads: query, the chat and get_user_documents, between mutations *)

\* the row of the documents table as get_user_documents returns it
Summary(row) ==
    [doc_id |-> row.doc_id, filename |-> row.filename,
     chunks_count |-> row.chunks_count]

\* get_user_documents that forgets the WHERE clause
get_user_documents_all(db, user_email) == {Summary(row) : row \in db}

\* lines 93-108: SELECT doc_id, filename, chunks_count ... WHERE user_email = ?
get_user_documents(db, user_email) ==
    {Summary(row) : row \in {r \in db : r.user_email = user_email}}

\* list_documents of user_email; fault: "db" (the SELECT fails) or "none"
GetUserDocuments(user_email, fault) ==
    /\ status = "serving"
    /\ MayFault(fault, FALSE)
    /\ last' = [NoCall EXCEPT !.op = "list", !.user_email = user_email,
                   !.stop = fault,
                   !.ret = IF fault = "none" THEN "result" ELSE "raised",
                   !.docs = IF fault = "none"
                            THEN get_user_documents(db_documents, user_email)
                            ELSE {},
                   !.http = IF fault = "none" THEN 200 ELSE 500]
    /\ Charge(fault)
    /\ UNCHANGED <<status, index, documents, metadatas, disk_index, disk_meta,
                   db_documents, next_uuid, chatvars, chunked>>

\* the service after a document of alice and then one of bob
Shared ==
    add_document_run(Ingested,
                     chunk_text(<<2, 1>>, DefaultChunkSize, DefaultOverlap).chunks,
                     "a.pdf", 2, "bob", "none")

\* the reads start on a service that is empty, holds one document, or holds
\* the documents of two owners
InitRead ==
    /\ status = "serving"
    /\ \E m \in {NewMachine, Ingested, Shared} :
          /\ index = m.index
          /\ documents = m.documents
          /\ metadatas = m.metadatas
          /\ disk_index = m.disk_index
          /\ disk_meta = m.disk_meta
          /\ db_documents = m.db_documents
          /\ next_uuid = Cardinality(m.db_documents) + 1
    /\ faults = 0
    /\ last = NoCall
    /\ conversations = {}
    /\ messages = << >>
    /\ clock = 0
    /\ inflight = {}
    /\ turns = 0
    /\ chunked = NoChunking

\* The reads of one worker: queries, listings and the turns of one
\* conversation
NextRead ==
    \/ \E user_email \in Users, question \in Questions, top_k \in TopKs,
          fault \in {"embed", "completion", "none"} :
            Query(user_email, question, top_k, fault)
    \/ \E user_email \in Users, fault \in {"db", "none"} :
            GetUserDocuments(user_email, fault)
    \/ \E user_email \in {"alice"},
          conversation_id \in {0} \cup {c.id : c \in conversations},
          top_k \in TopKs, fault \in {"db", "embed", "completion", "none"} :
            /\ inflight = {}
            /\ conversation_id = 0 => conversations = {}
            /\ turns < MaxRacing
            /\ ChatRead(user_email, conversation_id, top_k, fault)
    \/ \E p \in inflight, fault \in {"db", "none"}, t \in clock..MaxClock :
            ChatWrite(p, fault, t)

SpecRead == InitRead /\ [][NextRead]_vars

\* C21. query, query_with_conversation and get_user_documents leave the
\* index, documents, metadatas and the two files as they are; query and
\* get_user_documents also leave every table as it is; get_user_documents
\* returns exactly the summaries of the rows whose owner is the caller.
C21_ReadsFrame ==
    [][/\ last'.op \in {"query", "list", "chat_read", "chat_write"} =>
             /\ MemoryUnchanged
             /\ UNCHANGED <<disk_index, disk_meta>>
       /\ last'.op \in {"query", "list"} =>
             UNCHANGED <<db_documents, conversations, messages>>
       /\ (last'.op = "list" /\ last'.ret = "result") =>
             /\ \A d \in last'.docs :
                   \E r \in db_documents :
                       /\ r.user_email = last'.user_email
                       /\ d = [doc_id |-> r.doc_id, filename |-> r.filename,
                               chunks_count |-> r.chunks_count]
             /\ \A r \in db_documents :
                   r.user_email = last'.user_email =>
                       \E d \in last'.docs : d.doc_id = r.doc_id]_vars

\* a listing that returned rows while the table holds a row of another owner
C21_Witness ==
    /\ last.op = "list"
    /\ last.ret = "result"
    /\ last.docs # {}
    /\ \E r \in db_documents : r.user_email # last.user_email

----------------------------------------------------------------------------
(* Ingest and delete where nothing fails *)

\* add_document and delete_document with the embedding service, the files
\* and the database all working
NextDocs ==
    \/ \E text \in Texts, filename \in FileNames, user_email \in Users :
            AddDocument(text, filename, user_email, "none", FALSE)
    \/ \E doc_id \in 1..MaxDocs, user_email \in Users :
            DeleteDocument(doc_id, user_email, "none", FALSE)

SpecDocs == Init /\ [][NextDocs]_vars

\* the rows (1-based) of the metadata that name document doc_id
RowsOfDoc(doc_id) == {i \in Rows(metadatas) : metadatas[i].doc_id = doc_id}

\* C22. After add_document and delete_document calls that met no error, the
\* documents table holds a row (doc_id, owner, chunks_count = c) exactly when
\* the metadata holds c rows of that doc_id, all of that owner, with chunk_id
\* 0..c-1 in ascending row order; a document its owner deleted is in neither.
C22_TableMatchesIndex ==
    /\ \A r \in db_documents :
          /\ Cardinality(RowsOfDoc(r.doc_id)) = r.chunks_count
          /\ r.chunks_count >= 1
          /\ \A i \in RowsOfDoc(r.doc_id) :
                /\ metadatas[i].user_email = r.user_email
                /\ metadatas[i].chunk_id = Cardinality({j \in RowsOfDoc(r.doc_id) : j < i})
          /\ \A q \in db_documents : q.doc_id = r.doc_id => q = r
    /\ \A i \in Rows(metadatas) :
          \E r \in db_documents :
              r.doc_id = metadatas[i].doc_id /\ r.user_email = metadatas[i].user_email
    /\ (last.op = "delete" /\ last.ret = "True") => NoTrace(last.doc_id)

\* the owner of one document deleted it while the document of another owner,
\* of more than one chunk, stays
C22_Witness ==
    /\ last.op = "delete"
    /\ last.ret = "True"
    /\ \E r \in db_documents : r.chunks_count > 1 /\ r.user_email # last.user_email

----------------------------------------------------------------------------
(* The chat with a conversation_id of the caller's choice *)

\* a conversation_id that names no conversation
StrangerId == 0 - 1

\* The turns of one worker; the caller gives no conversation_id, the id of a
\* conversation (its own or not), or an id that names none
NextOwner ==
    \/ \E user_email \in Users,
          conversation_id \in {0, StrangerId} \cup {c.id : c \in conversations},
          top_k \in {DefaultTopK}, fault \in {"db", "embed", "completion", "none"} :
            /\ inflight = {}
            /\ turns < MaxRacing
            /\ ChatRead(user_email, conversation_id, top_k, fault)
    \/ \E p \in inflight, fault \in {"db", "none"}, t \in clock..MaxClock :
            ChatWrite(p, fault, t)

SpecOwner == InitChat /\ [][NextOwner]_vars

\* the conversation exists and is the caller's
OwnedBy(conversation_id, user_email) ==
    \E c \in conversations : c.id = conversation_id /\ c.user_email = user_email

\* C23. A chat turn reads the history of, and appends its two messages to,
\* the conversation it names only if that conversation exists and is the
\* caller's; no prompt holds the messages of another user's conversation, and
\* no message is stored under a conversation_id without a row in
\* conversations.
C23_ChatOwnership ==
    /\ PromptBuilt => OwnedBy(last.conversation_id, last.user_email)
    /\ (last.op = "chat_write" /\ last.ret = "result") =>
          OwnedBy(last.conversation_id, last.user_email)
    /\ \A i \in Rows(messages) :
          \E c \in conversations : c.id = messages[i].conversation_id

====
